---- MODULE Spec2Model ----
(***************************************************************************)
(* A model of app.py of pdf-analyser: the PDF text extraction with its OCR *)
(* fallback, the summariser, the two submission routes of index() and the  *)
(* deep_analyze() route over the companies table.                          *)
(*                                                                         *)
(* Texts are sequences of one-character strings, so that len(), strip()    *)
(* and concatenation are computed as Python computes them.  Messages and   *)
(* backend answers, which the code only tests for truth and stores, are    *)
(* TLA+ strings.  A Python Optional is a record [some, val].               *)
(***************************************************************************)
EXTENDS Integers, Sequences, FiniteSets, Bags, TLC

VARIABLES
    db,      \* the companies table: a sequence of rows, the row id is the index
    files,   \* the upload folder: secured file name -> the stored document
    model,   \* the module-level Gemini handle: TRUE when configured, FALSE when None
    updates, \* per row id, the UPDATE statements deep_analyze has committed on it
    reqs,    \* the bag of deep_analyze requests in flight, each at its position
    last,    \* the most recent response: which route answered, and what it did
    pin,     \* the arguments of a function call (the specifications of single functions)
    pout     \* what that call returned

vars == <<db, files, model, updates, reqs, last, pin, pout>>

-----------------------------------------------------------------------------
(* Bounds of the model *)

MaxPages == 2       \* pages of a document whose pages are enumerated freely
MaxRecords == 1     \* rows the companies table may hold
MaxRequests == 2    \* deep_analyze requests in flight at the same time

(* Constants of the program *)

MIN_TEXT_LENGTH == 100   \* extract_text_from_pdf: below this the text is "too sparse"
MIN_SUMMARY_LENGTH == 50 \* summarize_text: below this the text is "too short"
OCR_PAGE_CAP == 5        \* extract_text_via_ocr: pages sent to OCR.space
SUMMARY_BUDGET == 30000  \* summarize_text: characters of the text put in the prompt
ANALYSIS_BUDGET == 10000 \* perform_deep_analysis: characters of the text put in the prompt

-----------------------------------------------------------------------------
(* Python values *)

None == [some |-> FALSE, val |-> <<>>]     \* None where a text is expected
NoneStr == [some |-> FALSE, val |-> ""]    \* None where a message or an answer is expected
Some(v) == [some |-> TRUE, val |-> v]

\* Python's truth of an Optional[str]: neither None nor empty
Truthy(o) == o.some /\ Len(o.val) > 0

\* c * n: the character c repeated n times
Rep(c, n) == SubSeq([i \in 1..n |-> c], 1, n)

Min2(a, b) == IF a < b THEN a ELSE b

IsSpace(c) == c \in {" ", "\n", "\t"}

\* str.strip(): the text without its leading and trailing whitespace
Strip(s) ==
    IF \A i \in 1..Len(s) : IsSpace(s[i]) THEN <<>>
    ELSE LET lo == CHOOSE i \in 1..Len(s) :
                       ~IsSpace(s[i]) /\ \A j \in 1..(i - 1) : IsSpace(s[j])
             back == CHOOSE k \in 1..Len(s) :
                         ~IsSpace(s[Len(s) + 1 - k])
                             /\ \A j \in 1..(k - 1) : IsSpace(s[Len(s) + 1 - j])
         IN  SubSeq(s, lo, Len(s) + 1 - back)

\* text[:n]
Prefix(s, n) == SubSeq(s, 1, Min2(n, Len(s)))

-----------------------------------------------------------------------------
(* Documents and the OCR.space backend                                     *)
(*                                                                         *)
(* A file is [exists, readable, layers]: whether the path exists, whether  *)
(* fitz.open() succeeds, and the text layer of each page (get_text()). The *)
(* answers of                                                              *)
(* OCR.space, one per page, are an input of the extraction: "parsed" is an *)
(* answer with ParsedResults (its ParsedText is text), "errored" one with  *)
(* IsErroredOnProcessing and no ParsedResults, "raise" a requests.post,    *)
(* rendering or JSON exception (its message is exc).                       *)

NoFile == [exists |-> FALSE, readable |-> FALSE, layers |-> <<>>]
Document(layers) == [exists |-> TRUE, readable |-> TRUE, layers |-> layers]
Unreadable == [exists |-> TRUE, readable |-> FALSE, layers |-> <<>>]

Parsed(t) == [kind |-> "parsed", text |-> t, exc |-> ""]
Errored == [kind |-> "errored", text |-> <<>>, exc |-> ""]
Raises(e) == [kind |-> "raise", text |-> <<>>, exc |-> e]

\* the answers OCR.space may give for the pages of a stored file: all pages
\* recognised, or every request timing out
OcrAnswers(doc) ==
    IF Len(doc.layers) = 0 THEN {<<>>}
    ELSE {[i \in 1..Len(doc.layers) |-> r] : r \in {Parsed(<<"x", "y">>), Raises("timeout")}}

\* extract_text_from_pdf, step 1: the text layers of all pages, each followed by "\n"
RECURSIVE PrimaryText(_)
PrimaryText(layers) ==
    IF layers = <<>> THEN <<>>
    ELSE LET page_text == Head(layers)
         IN  (IF Len(page_text) > 0 THEN page_text \o <<"\n">> ELSE <<>>)
                 \o PrimaryText(Tail(layers))

\* extract_text_via_ocr, the body of the page loop: what one answer adds to full_text
OcrPageText(full_text, result) ==
    LET page_text == IF result.kind = "parsed" THEN result.text ELSE <<>>
    IN  IF Len(Strip(page_text)) > 0 THEN full_text \o page_text \o <<"\n">>
        ELSE full_text

\* extract_text_via_ocr, the page loop from page_num on.  An exception leaves the
\* loop: raised is TRUE and posts is the page whose request raised.
RECURSIVE OcrLoop(_, _, _, _)
OcrLoop(resps, page_num, limit, full_text) ==
    IF page_num > limit
    THEN [raised |-> FALSE, exc |-> "", full_text |-> full_text, posts |-> limit]
    ELSE LET result == resps[page_num]
         IN  IF result.kind = "raise"
             THEN [raised |-> TRUE, exc |-> result.exc, full_text |-> full_text,
                   posts |-> page_num]
             ELSE OcrLoop(resps, page_num + 1, limit, OcrPageText(full_text, result))

\* extract_text_via_ocr(pdf_path): (text, error), and the requests it posted
extract_text_via_ocr(doc, resps) ==
    IF ~doc.readable
    THEN [text |-> None, error |-> Some("OCR Failed: cannot open file"), posts |-> 0]
    ELSE LET r == OcrLoop(resps, 1, Min2(OCR_PAGE_CAP, Len(doc.layers)), <<>>)
         IN  IF r.raised
             THEN [text |-> None, error |-> Some("OCR Failed: " \o r.exc),
                   posts |-> r.posts]
             ELSE IF Len(Strip(r.full_text)) > 0
             THEN [text |-> Some(r.full_text), error |-> NoneStr, posts |-> r.posts]
             ELSE [text |-> None,
                   error |-> Some("No text could be extracted from the scanned PDF"),
                   posts |-> r.posts]

TooSparseLe(text) == Len(Strip(text)) = 0 \/ Len(Strip(text)) <= MIN_TEXT_LENGTH

\* extract_text_from_pdf, step 2: "if not text.strip() or len(text.strip()) < 100"
TooSparse(text) == Len(Strip(text)) = 0 \/ Len(Strip(text)) < MIN_TEXT_LENGTH

OcrMerged(text, ocr_text) == text \o ocr_text

\* extract_text_from_pdf: "text = ocr_text"
OcrReplaces(text, ocr_text) == ocr_text

StillNoTextUnstripped(text) == Len(text) = 0

\* extract_text_from_pdf: "elif not text.strip()"
StillNoText(text) == Len(Strip(text)) = 0

\* extract_text_from_pdf(pdf_path): (text, error); ocr_calls counts the calls of
\* extract_text_via_ocr and posts the requests sent to OCR.space
extract_text_from_pdf(doc, resps) ==
    IF ~doc.readable
    THEN [text |-> None, error |-> Some("cannot open file"), ocr_calls |-> 0, posts |-> 0]
    ELSE IF Len(doc.layers) = 0
    THEN [text |-> None, error |-> Some("Empty PDF file"), ocr_calls |-> 0, posts |-> 0]
    ELSE LET text == PrimaryText(doc.layers)
         IN  IF TooSparse(text)
             THEN LET ocr == extract_text_via_ocr(doc, resps)
                  IN  IF Truthy(ocr.text)
                      THEN [text |-> Some(OcrReplaces(text, ocr.text.val)),
                            error |-> NoneStr, ocr_calls |-> 1, posts |-> ocr.posts]
                      ELSE IF StillNoText(text)
                      THEN [text |-> None,
                            error |-> Some(IF Truthy(ocr.error)
                                           THEN "Scanned PDF detected. OCR failed: "
                                                    \o ocr.error.val
                                           ELSE "Scanned PDF detected. OCR yielded no text."),
                            ocr_calls |-> 1, posts |-> ocr.posts]
                      ELSE [text |-> Some(text), error |-> NoneStr,
                            ocr_calls |-> 1, posts |-> ocr.posts]
             ELSE [text |-> Some(text), error |-> NoneStr, ocr_calls |-> 0, posts |-> 0]

-----------------------------------------------------------------------------
(* The Gemini backend.  An answer of model.generate_content is "text" (its *)
(* response.text is text, possibly empty) or "raise" (the call, or reading *)
(* response.text, raised).                                                 *)

Answer(t) == [kind |-> "text", text |-> t]
AnswerRaises == [kind |-> "raise", text |-> ""]

PLACEHOLDER == "Text too short to summarize."

TooShortOffByOne(text) == Len(text) < MIN_SUMMARY_LENGTH - 1

\* summarize_text: "if len(text) < 50"
TooShort(text) == Len(text) < MIN_SUMMARY_LENGTH

\* summarize_text(text) with the module's model handle mdl; answer is what the
\* backend would answer.  gen_calls counts the calls of model.generate_content.
summarize_text(text, mdl, answer) ==
    IF Len(text) = 0 \/ ~mdl
    THEN [ret |-> NoneStr, gen_calls |-> 0, prompt |-> <<>>]
    ELSE IF TooShort(text)
    THEN [ret |-> Some(PLACEHOLDER), gen_calls |-> 0, prompt |-> <<>>]
    ELSE IF answer.kind = "raise"
    THEN [ret |-> NoneStr, gen_calls |-> 1, prompt |-> Prefix(text, SUMMARY_BUDGET)]
    ELSE [ret |-> Some(answer.text), gen_calls |-> 1,
          prompt |-> Prefix(text, SUMMARY_BUDGET)]

perform_deep_analysis_error_text(doc, resps, mdl, answer) ==
    IF ~mdl
    THEN [analysis |-> NoneStr, gen_calls |-> 0, prompt |-> <<>>]
    ELSE LET ext == extract_text_from_pdf(doc, resps)
         IN  IF ~Truthy(ext.text)
             THEN [analysis |-> NoneStr, gen_calls |-> 0, prompt |-> <<>>]
             ELSE [analysis |-> IF answer.kind = "raise"
                                THEN Some("Deep analysis failed")
                                ELSE IF Len(answer.text) > 0 THEN Some(answer.text)
                                ELSE NoneStr,
                   gen_calls |-> 1,
                   prompt |-> Prefix(ext.text.val, ANALYSIS_BUDGET)]

\* perform_deep_analysis(pdf_path): the analysis or None
perform_deep_analysis(doc, resps, mdl, answer) ==
    IF ~mdl
    THEN [analysis |-> NoneStr, gen_calls |-> 0, prompt |-> <<>>]
    ELSE LET ext == extract_text_from_pdf(doc, resps)
         IN  IF ~Truthy(ext.text)
             THEN [analysis |-> NoneStr, gen_calls |-> 0, prompt |-> <<>>]
             ELSE IF answer.kind = "raise"
             THEN [analysis |-> NoneStr, gen_calls |-> 1,
                   prompt |-> Prefix(ext.text.val, ANALYSIS_BUDGET)]
             ELSE [analysis |-> IF Len(answer.text) > 0 THEN Some(answer.text)
                                ELSE NoneStr,
                   gen_calls |-> 1,
                   prompt |-> Prefix(ext.text.val, ANALYSIS_BUDGET)]

-----------------------------------------------------------------------------
(* extract_text_from_url.  A fetched page is [ok, body]: whether the GET   *)
(* and the parse succeeded, and soup.get_text() after the script and style *)
(* elements are removed.                                                   *)

\* str.split(sep): the pieces of s between the occurrences of sep, left to right
RECURSIVE SplitOn(_, _, _)
SplitOn(s, sep, cur) ==
    IF Len(s) = 0 THEN <<cur>>
    ELSE IF Len(s) >= Len(sep) /\ SubSeq(s, 1, Len(sep)) = sep
    THEN <<cur>> \o SplitOn(SubSeq(s, Len(sep) + 1, Len(s)), sep, <<>>)
    ELSE SplitOn(Tail(s), sep, Append(cur, Head(s)))

\* the stripped, non-empty phrases of the lines, in order
RECURSIVE Chunks(_)
Chunks(pieces) ==
    IF pieces = <<>> THEN <<>>
    ELSE LET chunk == Strip(Head(pieces))
         IN  (IF Len(chunk) > 0 THEN <<chunk>> ELSE <<>>) \o Chunks(Tail(pieces))

RECURSIVE Phrases(_)
Phrases(lines) ==
    IF lines = <<>> THEN <<>>
    ELSE SplitOn(Strip(Head(lines)), <<" ", " ">>, <<>>) \o Phrases(Tail(lines))

\* '\n'.join(chunks)
RECURSIVE JoinLines(_)
JoinLines(chunks) ==
    IF chunks = <<>> THEN <<>>
    ELSE IF Len(chunks) = 1 THEN Head(chunks)
    ELSE Head(chunks) \o <<"\n">> \o JoinLines(Tail(chunks))

\* extract_text_from_url(url): the normalised text, or None
extract_text_from_url(page) ==
    IF ~page.ok THEN None
    ELSE Some(JoinLines(Chunks(Phrases(SplitOn(page.body, <<"\n">>, <<>>)))))

-----------------------------------------------------------------------------
(* The routes.  A file name is [dir, stem, ext], the name the client sent  *)
(* being dir + stem + "." + ext (the empty name has all three empty).      *)

ALLOWED_EXTENSIONS == {"pdf"}

\* allowed_file(filename); the extensions enumerated are lower case
allowed_file(filename) == filename.ext # "" /\ filename.ext \in ALLOWED_EXTENSIONS

\* werkzeug's secure_filename(filename): the name without its directory part
secure_filename(filename) == filename.stem \o "." \o filename.ext

\* urlparse(url).netloc
Netloc(url) == IF url = "" THEN "" ELSE "example.com"

\* a row of the companies table as save_company inserts it
Row(name, source_type, source_location, text, summary) ==
    [company_name |-> name, source_type |-> source_type,
     source_location |-> source_location, raw_text |-> text,
     summary |-> summary, deep_analysis |-> NoneStr]

IfTextNotNone(text) == text.some

\* index(): "if text:", the guard of summarize_text and save_company
IfText(text) == Truthy(text)

save_company_not_null(table, name, source_type, source_location, text, summary) ==
    IF summary.some
    THEN Append(table, Row(name, source_type, source_location, text, summary))
    ELSE table

\* save_company(name, source_type, source_location, text, summary) on the table
save_company(table, name, source_type, source_location, text, summary) ==
    Append(table, Row(name, source_type, source_location, text, summary))

\* the columns of a fetched row that deep_analyze reads
Fetched(row) ==
    [source_type |-> row.source_type, source_location |-> row.source_location,
     deep_analysis |-> row.deep_analysis]

\* a deep_analyze request in flight: where it is, the id in its URL, the row it
\* fetched, and the analysis it holds
Request(pc, id, company, analysis, gen_calls) ==
    [pc |-> pc, id |-> id, company |-> company, analysis |-> analysis,
     gen_calls |-> gen_calls]

Moved(r, to) == (reqs (-) SetToBag({r})) (+) SetToBag({to})
Answered(r) == reqs (-) SetToBag({r})

\* how an extraction ended: None, an empty text, or a text
TextKind(text) == IF ~text.some THEN "none" ELSE IF Len(text.val) = 0 THEN "empty" ELSE "text"

\* the field values of `last` that a route does not set
NoResponse ==
    [route |-> "none", id |-> 0, outcome |-> "", text |-> "", summary |-> NoneStr,
     backend |-> "", inserted |-> 0, source_type |-> "", seen |-> NoneStr,
     analysis |-> NoneStr, gen_calls |-> 0, wrote |-> FALSE]

\* index(), the file part: the handler's effect for an allowed file name
IndexFile(custom_name, filename, upload, answer) ==
    LET name == secure_filename(filename)
        ext == extract_text_from_pdf(upload.doc, upload.resps)
        company_name == IF custom_name # "" THEN custom_name ELSE name
        sum == summarize_text(ext.text.val, model, answer)
    IN  /\ files' = [files EXCEPT ![name] = upload.doc]
        /\ IF IfText(ext.text)
           THEN /\ db' = save_company(db, company_name, "PDF", name, ext.text.val, sum.ret)
                /\ updates' = IF Len(db') > Len(db) THEN Append(updates, 0) ELSE updates
                /\ last' = [NoResponse EXCEPT !.route = "index", !.outcome = "saved",
                                !.text = TextKind(ext.text), !.summary = sum.ret,
                                !.backend = IF sum.gen_calls = 0 THEN "" ELSE answer.kind,
                                !.gen_calls = sum.gen_calls,
                                !.source_type = "PDF",
                                !.inserted = Len(db') - Len(db)]
           ELSE /\ UNCHANGED <<db, updates>>
                /\ last' = [NoResponse EXCEPT !.route = "index",
                                !.outcome = "extract_failed", !.text = TextKind(ext.text),
                                !.source_type = "PDF",
                                !.inserted = Len(db') - Len(db)]

\* index(), the URL part
IndexUrl(custom_name, url, page, answer) ==
    LET text == extract_text_from_url(page)
        company_name == IF custom_name # "" THEN custom_name ELSE Netloc(url)
        sum == summarize_text(text.val, model, answer)
    IN  /\ IF IfText(text)
           THEN /\ db' = save_company(db, company_name, "URL", url, text.val, sum.ret)
                /\ updates' = IF Len(db') > Len(db) THEN Append(updates, 0) ELSE updates
                /\ last' = [NoResponse EXCEPT !.route = "index", !.outcome = "saved",
                                !.text = TextKind(text), !.summary = sum.ret,
                                !.backend = IF sum.gen_calls = 0 THEN "" ELSE answer.kind,
                                !.gen_calls = sum.gen_calls,
                                !.source_type = "URL",
                                !.inserted = Len(db') - Len(db)]
           ELSE /\ UNCHANGED <<db, updates>>
                /\ last' = [NoResponse EXCEPT !.route = "index",
                                !.outcome = "fetch_failed", !.text = TextKind(text),
                                !.source_type = "URL",
                                !.inserted = Len(db') - Len(db)]

\* index(), a POST: the form has custom_name and url, and the file part when has_file
Index(custom_name, has_file, filename, upload, url, page, answer) ==
    /\ Len(db) < MaxRecords
    /\ IF has_file /\ filename = [dir |-> "", stem |-> "", ext |-> ""]
       THEN /\ last' = [NoResponse EXCEPT !.route = "index", !.outcome = "no_file"]
            /\ UNCHANGED <<db, updates, files>>
       ELSE IF has_file /\ allowed_file(filename)
       THEN IndexFile(custom_name, filename, upload, answer)
       ELSE IF url # ""
       THEN /\ IndexUrl(custom_name, url, page, answer)
            /\ UNCHANGED files
       ELSE /\ last' = [NoResponse EXCEPT !.route = "index", !.outcome = "form"]
            /\ UNCHANGED <<db, updates, files>>
    /\ UNCHANGED <<model, reqs, pin, pout>>

\* the file at UPLOAD_FOLDER/source_location
FileAt(source_location) ==
    IF source_location \in DOMAIN files THEN files[source_location] ELSE NoFile

AlreadyAnalysedNever(company) == FALSE

\* deep_analyze: "if company['deep_analysis']"
AlreadyAnalysed(company) == Truthy(company.deep_analysis)

IsPdfAlways(company) == TRUE

\* deep_analyze: "if company['source_type'] == 'PDF'"
IsPdf(company) == company.source_type = "PDF"

\* the response of deep_analyze for request r
Response(r, outcome) ==
    [NoResponse EXCEPT !.route = "deep_analyze", !.id = r.id, !.outcome = outcome,
                       !.source_type = r.company.source_type,
                       !.seen = r.company.deep_analysis]

\* deep_analyze(id), from the SELECT to the branch on the row
DeepAnalyzeRead(id) ==
    /\ BagCardinality(reqs) < MaxRequests
    /\ IF id \notin 1..Len(db)
       THEN /\ last' = [NoResponse EXCEPT !.route = "deep_analyze", !.id = id,
                            !.outcome = "not_found"]
            /\ UNCHANGED reqs
       ELSE LET r == Request("check_file", id, Fetched(db[id]), NoneStr, 0)
            IN  IF AlreadyAnalysed(r.company)
                THEN /\ last' = Response(r, "exists")
                     /\ UNCHANGED reqs
                ELSE IF IsPdf(r.company)
                THEN /\ reqs' = reqs (+) SetToBag({r})
                     /\ UNCHANGED last
                ELSE /\ last' = Response(r, "pdf_only")
                     /\ UNCHANGED reqs
    /\ UNCHANGED <<db, files, model, updates, pin, pout>>

\* deep_analyze: "if os.path.exists(filepath)"
DeepAnalyzeCheckFile(r) ==
    /\ r.pc = "check_file"
    /\ IF FileAt(r.company.source_location).exists
       THEN /\ reqs' = Moved(r, [r EXCEPT !.pc = "analyze"])
            /\ UNCHANGED last
       ELSE /\ last' = Response(r, "file_missing")
            /\ reqs' = Answered(r)
    /\ UNCHANGED <<db, files, model, updates, pin, pout>>

\* deep_analyze: "analysis = perform_deep_analysis(filepath)" and "if analysis"
DeepAnalyzePerform(r, answer) ==
    /\ r.pc = "analyze"
    /\ \E resps \in OcrAnswers(FileAt(r.company.source_location)) :
       LET a == perform_deep_analysis(FileAt(r.company.source_location), resps,
                                      model, answer)
       IN  IF Truthy(a.analysis)
           THEN /\ reqs' = Moved(r, [r EXCEPT !.pc = "update", !.analysis = a.analysis,
                                              !.gen_calls = a.gen_calls])
                /\ UNCHANGED last
           ELSE /\ last' = [Response(r, "failed") EXCEPT
                                !.backend = IF a.gen_calls = 0 THEN "" ELSE answer.kind,
                                !.gen_calls = a.gen_calls]
                /\ reqs' = Answered(r)
    /\ UNCHANGED <<db, files, model, updates, pin, pout>>

\* deep_analyze: the UPDATE, its commit and the response
DeepAnalyzeUpdate(r) ==
    /\ r.pc = "update"
    /\ db' = [db EXCEPT ![r.id].deep_analysis = r.analysis]
    /\ updates' = [updates EXCEPT ![r.id] = @ + 1]
    /\ last' = [Response(r, "complete") EXCEPT !.analysis = r.analysis,
                    !.gen_calls = r.gen_calls, !.wrote = TRUE]
    /\ reqs' = Answered(r)
    /\ UNCHANGED <<files, model, pin, pout>>

\* the upload folder is in /tmp: a stored file may disappear
DeleteFile(name) ==
    /\ files[name].exists
    /\ files' = [files EXCEPT ![name] = NoFile]
    /\ UNCHANGED <<db, model, updates, reqs, last, pin, pout>>

-----------------------------------------------------------------------------
(* The inputs enumerated *)

NoName == [dir |-> "", stem |-> "", ext |-> ""]
NotAllowedName == [dir |-> "", stem |-> "notes", ext |-> "txt"]
FileNames ==
    {NoName,
     [dir |-> "", stem |-> "a", ext |-> "pdf"],
     [dir |-> "../", stem |-> "a", ext |-> "pdf"],
     NotAllowedName}

StoredNames == {secure_filename(f) : f \in {g \in FileNames : allowed_file(g)}}

CustomNames == {"", "Acme"}

Urls == {"", "http://example.com/about"}

\* a text layer above the threshold, and a scanned page
RichDoc == Document(<<Rep("a", MIN_TEXT_LENGTH)>>)
ScannedDoc == Document(<<<<>>>>)

\* an uploaded file with the answers OCR.space gives while index() extracts it
Uploads ==
    {[doc |-> RichDoc, resps |-> <<Raises("timeout")>>],
     [doc |-> ScannedDoc, resps |-> <<Parsed(<<"x", "y">>)>>],
     [doc |-> ScannedDoc, resps |-> <<Raises("timeout")>>]}

NoUpload == [doc |-> NoFile, resps |-> <<>>]
NoPage == [ok |-> FALSE, body |-> <<>>]

Pages ==
    {[ok |-> FALSE, body |-> <<>>],
     [ok |-> TRUE, body |-> <<" ", "\n", " ">>],
     [ok |-> TRUE, body |-> <<"a", " ", " ", " ", "b", "\n", "\n", " ", "c">>]}

Answers == {Answer("generated"), Answer(""), AnswerRaises}
SummaryAnswers == {Answer("generated"), AnswerRaises}

NoCall == [fn |-> "none"]

-----------------------------------------------------------------------------
(* The application: index() and deep_analyze() requests, served by         *)
(* MaxRequests workers, over one table and one upload folder.              *)

Init ==
    /\ db = <<>>
    /\ updates = <<>>
    /\ files = [n \in StoredNames |-> NoFile]
    /\ model \in BOOLEAN
    /\ reqs = EmptyBag
    /\ last = NoResponse
    /\ pin = NoCall
    /\ pout = NoCall

Next ==
    \/ \E filename \in FileNames, upload \in Uploads, answer \in SummaryAnswers :
            Index("", TRUE, filename, upload, "", NoPage, answer)
    \/ \E custom_name \in CustomNames, has_file \in BOOLEAN, url \in Urls,
          page \in Pages, answer \in SummaryAnswers :
            Index(custom_name, has_file, NotAllowedName, NoUpload, url, page, answer)
    \/ \E id \in 1..MaxRecords : DeepAnalyzeRead(id)
    \/ \E r \in BagToSet(reqs) : DeepAnalyzeCheckFile(r)
    \/ \E r \in BagToSet(reqs), answer \in Answers : DeepAnalyzePerform(r, answer)
    \/ \E r \in BagToSet(reqs) : DeepAnalyzeUpdate(r)
    \/ \E name \in StoredNames : DeleteFile(name)

Spec == Init /\ [][Next]_vars

\* The same routes served one request at a time: a deep_analyze request is
\* taken only when none is in flight.
NextSeq ==
    \/ \E filename \in FileNames, upload \in Uploads, answer \in SummaryAnswers :
            Index("", TRUE, filename, upload, "", NoPage, answer)
    \/ \E custom_name \in CustomNames, has_file \in BOOLEAN, url \in Urls,
          page \in Pages, answer \in SummaryAnswers :
            Index(custom_name, has_file, NotAllowedName, NoUpload, url, page, answer)
    \/ \E id \in 1..MaxRecords : reqs = EmptyBag /\ DeepAnalyzeRead(id)
    \/ \E r \in BagToSet(reqs) : DeepAnalyzeCheckFile(r)
    \/ \E r \in BagToSet(reqs), answer \in Answers : DeepAnalyzePerform(r, answer)
    \/ \E r \in BagToSet(reqs) : DeepAnalyzeUpdate(r)
    \/ \E name \in StoredNames : DeleteFile(name)

SpecSeq == Init /\ [][NextSeq]_vars

-----------------------------------------------------------------------------
(* extract_text_from_pdf and extract_text_via_ocr on their own: a document *)
(* and the OCR.space answers for its pages are drawn, and the functions    *)
(* are called on them.                                                     *)

\* text layers: none, blank, one character under the threshold, at the
\* threshold, and under the threshold only once stripped
Layers ==
    {<<>>,
     <<" ">>,
     Rep("a", MIN_TEXT_LENGTH - 1),
     Rep("a", MIN_TEXT_LENGTH),
     <<" ">> \o Rep("a", MIN_TEXT_LENGTH - 2) \o <<" ">>}

Responses == {Parsed(<<"x", "y">>), Parsed(<<" ">>), Errored, Raises("timeout")}

SeqsUpTo(S, n) == UNION {[1..k -> S] : k \in 0..n}

\* documents longer than the OCR page cap: blank scans, with the answers for
\* the first page, the capped pages after it and the pages beyond the cap
LongInputs ==
    {[doc |-> Document([i \in 1..(OCR_PAGE_CAP + 1) |-> <<>>]),
      resps |-> [i \in 1..(OCR_PAGE_CAP + 1) |->
                    IF i = 1 THEN first ELSE IF i <= OCR_PAGE_CAP THEN mid ELSE beyond]] :
        first \in Responses, mid \in Responses, beyond \in Responses}

ExtractInputs ==
    {[doc |-> Document(layers), resps |-> resps] :
        layers \in SeqsUpTo(Layers, MaxPages), resps \in SeqsUpTo(Responses, MaxPages)}

InitExtract ==
    /\ db = <<>>
    /\ updates = <<>>
    /\ files = [n \in StoredNames |-> NoFile]
    /\ model = TRUE
    /\ reqs = EmptyBag
    /\ last = NoResponse
    /\ pin \in {i \in ExtractInputs : Len(i.doc.layers) = Len(i.resps)}
                  \cup LongInputs
                  \cup {[doc |-> Unreadable, resps |-> <<>>]}
    /\ pout = NoCall

CallExtractTextFromPdf ==
    /\ pout' = [fn |-> "extract_text_from_pdf",
                ret |-> extract_text_from_pdf(pin.doc, pin.resps)]
    /\ UNCHANGED <<db, files, model, updates, reqs, last, pin>>

CallExtractTextViaOcr ==
    /\ pout' = [fn |-> "extract_text_via_ocr",
                ret |-> extract_text_via_ocr(pin.doc, pin.resps)]
    /\ UNCHANGED <<db, files, model, updates, reqs, last, pin>>

NextExtract == CallExtractTextFromPdf \/ CallExtractTextViaOcr

SpecExtract == InitExtract /\ [][NextExtract]_vars

-----------------------------------------------------------------------------
(* summarize_text on its own *)

SummaryTexts ==
    {<<>>,
     <<" ">>,
     Rep("a", MIN_SUMMARY_LENGTH - 1),
     Rep("a", MIN_SUMMARY_LENGTH),
     Rep(" ", MIN_SUMMARY_LENGTH),
     Rep("a", 10) \o Rep(" ", MIN_SUMMARY_LENGTH - 10),
     Rep(" ", MIN_SUMMARY_LENGTH - 10) \o Rep("a", 10),
     Rep("a", 10) \o Rep(" ", MIN_SUMMARY_LENGTH - 11),
     <<"a">>}

InitSummarize ==
    /\ db = <<>>
    /\ updates = <<>>
    /\ files = [n \in StoredNames |-> NoFile]
    /\ model \in BOOLEAN
    /\ reqs = EmptyBag
    /\ last = NoResponse
    /\ pin \in [text : SummaryTexts, answer : Answers]
    /\ pout = NoCall

CallSummarizeText ==
    /\ pout' = [fn |-> "summarize_text",
                ret |-> summarize_text(pin.text, model, pin.answer)]
    /\ UNCHANGED <<db, files, model, updates, reqs, last, pin>>

NextSummarize == CallSummarizeText

SpecSummarize == InitSummarize /\ [][NextSummarize]_vars

-----------------------------------------------------------------------------
(* Properties *)

\* C1: two deep_analyze requests running concurrently on the same row never both
\* pass the "already has analysis" check, call the backend and update: a row's
\* deep_analysis is written at most once.
C1_WrittenAtMostOnce == \A id \in 1..Len(db) : updates[id] <= 1

\* C2: served one after the other, a deep_analyze request on a row whose analysis
\* an earlier request stored answers "exists" with no backend call and no update,
\* and leaves the stored analysis as it was written; the request that stored it
\* made the one backend call and the one UPDATE of that row.
C2_SecondCallIsNoOp ==
    /\ (last.route = "deep_analyze" /\ Truthy(last.seen)) =>
            /\ last.outcome = "exists"
            /\ last.gen_calls = 0
            /\ ~last.wrote
            /\ db[last.id].deep_analysis = last.seen
            /\ updates[last.id] = 1
    /\ (last.route = "deep_analyze" /\ last.wrote) =>
            /\ last.gen_calls = 1
            /\ db[last.id].deep_analysis = last.analysis
            /\ updates[last.id] = 1

C2_Witness ==
    /\ last.route = "deep_analyze"
    /\ last.outcome = "exists"
    /\ Truthy(last.seen)
    /\ updates[last.id] = 1

\* the call whose result pout holds was extract_text_from_pdf on a readable
\* document with pages
ExtractedPdf ==
    /\ pout.fn = "extract_text_from_pdf"
    /\ pin.doc.readable
    /\ Len(pin.doc.layers) > 0

\* C3: when the stripped primary text has at least MIN_TEXT_LENGTH characters,
\* extract_text_from_pdf never calls extract_text_via_ocr and returns the primary
\* text.
C3_NoOcrAtThreshold ==
    (ExtractedPdf /\ Len(Strip(PrimaryText(pin.doc.layers))) >= MIN_TEXT_LENGTH) =>
        /\ pout.ret.ocr_calls = 0
        /\ pout.ret.posts = 0
        /\ pout.ret.text = Some(PrimaryText(pin.doc.layers))
        /\ pout.ret.error = NoneStr

C3_Witness ==
    /\ ExtractedPdf
    /\ Len(Strip(PrimaryText(pin.doc.layers))) = MIN_TEXT_LENGTH
    /\ pout.ret.ocr_calls = 0

\* C4: when the primary text is below the threshold and the OCR fallback returns
\* a text, extract_text_from_pdf returns exactly that text, not a merge with the
\* primary text.
C4_OcrReplacesPrimary ==
    (/\ ExtractedPdf
     /\ Len(Strip(PrimaryText(pin.doc.layers))) < MIN_TEXT_LENGTH
     /\ extract_text_via_ocr(pin.doc, pin.resps).text.some) =>
        /\ pout.ret.text = extract_text_via_ocr(pin.doc, pin.resps).text
        /\ pout.ret.error = NoneStr
        /\ pout.ret.ocr_calls = 1

C4_Witness ==
    /\ ExtractedPdf
    /\ Len(Strip(PrimaryText(pin.doc.layers))) \in 1..(MIN_TEXT_LENGTH - 1)
    /\ extract_text_via_ocr(pin.doc, pin.resps).text.some
    /\ pout.ret.text = extract_text_via_ocr(pin.doc, pin.resps).text

\* the primary text was below the threshold and the OCR fallback returned no text
OcrFallbackFailed ==
    /\ ExtractedPdf
    /\ Len(Strip(PrimaryText(pin.doc.layers))) < MIN_TEXT_LENGTH
    /\ ~extract_text_via_ocr(pin.doc, pin.resps).text.some

\* C5 as stated: when the primary text is below the threshold and the OCR fallback
\* fails, a non-empty primary text is returned with no error, and an empty one
\* gives no text and an error.
C5_Original ==
    OcrFallbackFailed =>
        IF Len(PrimaryText(pin.doc.layers)) > 0
        THEN /\ pout.ret.text = Some(PrimaryText(pin.doc.layers))
             /\ pout.ret.error = NoneStr
        ELSE /\ ~pout.ret.text.some
             /\ pout.ret.error.some

\* C5 as amended: when the primary text is below the threshold and the OCR
\* fallback fails, a primary text that is non-empty once stripped is returned
\* unchanged with no error, and one that is empty once stripped (no text at all,
\* or whitespace only) gives no text and an error carrying the OCR error.
C5_Amended ==
    OcrFallbackFailed =>
        IF Len(Strip(PrimaryText(pin.doc.layers))) > 0
        THEN /\ pout.ret.text = Some(PrimaryText(pin.doc.layers))
             /\ pout.ret.error = NoneStr
        ELSE /\ ~pout.ret.text.some
             /\ pout.ret.error =
                    Some("Scanned PDF detected. OCR failed: "
                            \o extract_text_via_ocr(pin.doc, pin.resps).error.val)

C5_Witness ==
    /\ OcrFallbackFailed
    /\ Len(PrimaryText(pin.doc.layers)) > 0
    /\ Len(Strip(PrimaryText(pin.doc.layers))) = 0
    /\ ~pout.ret.text.some

\* the text of the pages among the first `limit` that OCR.space recognised, in
\* page order, each followed by "\n"
RECURSIVE RecognisedText(_, _)
RecognisedText(resps, limit) ==
    IF limit = 0 THEN <<>>
    ELSE RecognisedText(resps, limit - 1)
            \o (IF resps[limit].kind = "parsed" /\ Len(Strip(resps[limit].text)) > 0
                THEN resps[limit].text \o <<"\n">> ELSE <<>>)

\* C6: a failure of OCR.space on one page does not abort the others: when some page
\* within the cap is recognised with non-empty text, extract_text_via_ocr sends
\* every page up to the cap and returns the recognised pages' text in page order.
C6_PageFailureSkipped ==
    LET limit == Min2(OCR_PAGE_CAP, Len(pin.doc.layers))
    IN  (/\ pout.fn = "extract_text_via_ocr"
         /\ pin.doc.readable
         /\ Len(RecognisedText(pin.resps, limit)) > 0) =>
            /\ pout.ret.posts = limit
            /\ pout.ret.text = Some(RecognisedText(pin.resps, limit))
            /\ pout.ret.error = NoneStr

\* C7: every row of the table has a non-empty raw_text, and a submission whose
\* extraction failed or gave an empty text inserted no row.
C7_NoRecordWithoutText ==
    /\ \A id \in 1..Len(db) : Len(db[id].raw_text) > 0
    /\ (last.route = "index" /\ last.text # "text") => last.inserted = 0

C7_Witness ==
    /\ last.route = "index"
    /\ last.outcome = "fetch_failed"
    /\ last.text = "empty"
    /\ last.inserted = 0

\* C8 as stated: for every text whose stripped length is below MIN_SUMMARY_LENGTH,
\* the empty text included and with or without a model, summarize_text returns the
\* placeholder and makes no backend call.
C8_Original ==
    (pout.fn = "summarize_text" /\ Len(Strip(pin.text)) < MIN_SUMMARY_LENGTH) =>
        /\ pout.ret.ret = Some(PLACEHOLDER)
        /\ pout.ret.gen_calls = 0

\* C8 as amended: for every text whose length, whitespace included, is below
\* MIN_SUMMARY_LENGTH, summarize_text makes no backend call; it returns the
\* placeholder when the text is non-empty and a model is configured, and None
\* when the text is empty or no model is configured.
C8_Amended ==
    (pout.fn = "summarize_text" /\ Len(pin.text) < MIN_SUMMARY_LENGTH) =>
        /\ pout.ret.gen_calls = 0
        /\ pout.ret.ret = IF Len(pin.text) = 0 \/ ~model THEN NoneStr
                          ELSE Some(PLACEHOLDER)

C8_Witness ==
    /\ pout.fn = "summarize_text"
    /\ model
    /\ Len(pin.text) = MIN_SUMMARY_LENGTH - 1
    /\ pout.ret.ret = Some(PLACEHOLDER)
    /\ pout.ret.gen_calls = 0

\* C9: a deep_analyze request on a URL row is answered "only available for PDFs":
\* it never reaches perform_deep_analysis, calls no backend and writes nothing, so
\* a URL row never has an analysis or an UPDATE.
C9_UrlRejected ==
    /\ (last.route = "deep_analyze" /\ last.source_type = "URL") =>
            /\ last.outcome = "pdf_only"
            /\ last.gen_calls = 0
            /\ ~last.wrote
    /\ \A r \in BagToSet(reqs) : r.company.source_type # "URL"
    /\ \A id \in 1..Len(db) :
            db[id].source_type = "URL" =>
                ~db[id].deep_analysis.some /\ updates[id] = 0

C9_Witness ==
    /\ last.route = "deep_analyze"
    /\ last.source_type = "URL"
    /\ last.outcome = "pdf_only"
    /\ db[last.id].source_type = "URL"

\* C10: a submission whose extraction returned a non-empty text inserts exactly one
\* row whatever summarize_text returned; when the backend raised or no model is
\* configured the row's summary is NULL.
C10_SummaryNeverBlocks ==
    (last.route = "index" /\ last.text = "text") =>
        /\ last.outcome = "saved"
        /\ last.inserted = 1
        /\ db[Len(db)].summary = last.summary
        /\ (~model \/ last.backend = "raise") => ~db[Len(db)].summary.some

C10_Witness ==
    /\ last.route = "index"
    /\ last.text = "text"
    /\ last.backend = "raise"
    /\ last.inserted = 1
    /\ ~db[Len(db)].summary.some

\* a step in which a deep_analyze request answers that the analysis failed or
\* that the stored file is missing
FailedDeepAnalyze ==
    /\ BagCardinality(reqs') < BagCardinality(reqs)
    /\ last'.route = "deep_analyze"
    /\ last'.outcome \in {"failed", "file_missing"}

\* the non-empty texts the backend can answer
GeneratedTexts == {a.text : a \in {b \in Answers : b.kind = "text" /\ Len(b.text) > 0}}

\* C11: a deep_analyze request that fails (no model, the backend answers nothing
\* or raises, the re-extraction gives no text, the stored file is missing) writes
\* nothing: every row and the count of UPDATEs are as before, the row's
\* deep_analysis is still NULL, and the row is still a PDF row that the
\* "already has analysis" test lets through, so a later request analyses again.
\* The only change any step makes to an existing row is to set deep_analysis to a
\* non-empty text the backend generated, in a step that answers "complete".
C11_FailurePersistsNothing ==
    [][/\ FailedDeepAnalyze =>
            /\ db' = db
            /\ updates' = updates
            /\ ~db'[last'.id].deep_analysis.some
            /\ ~AlreadyAnalysed(Fetched(db'[last'.id]))
            /\ IsPdf(Fetched(db'[last'.id]))
       /\ \A i \in 1..Len(db) :
            db'[i] # db[i] =>
                /\ db'[i] = [db[i] EXCEPT !.deep_analysis = db'[i].deep_analysis]
                /\ db'[i].deep_analysis.some
                /\ db'[i].deep_analysis.val \in GeneratedTexts
                /\ last'.outcome = "complete" /\ last'.id = i]_vars

\* after a request on a row failed with the backend raising, the row is still
\* NULL and unwritten, and a later request on the same row has passed the
\* "already has analysis" test, analysed again and is about to UPDATE
C11_Witness ==
    /\ last.route = "deep_analyze"
    /\ last.outcome = "failed"
    /\ last.backend = "raise"
    /\ ~db[last.id].deep_analysis.some
    /\ updates[last.id] = 0
    /\ \E r \in BagToSet(reqs) :
            r.id = last.id /\ r.pc = "update" /\ Truthy(r.analysis)

====
